---- MODULE Spec2Model ----
(***************************************************************************)
(* UVM toolchain: the two assemblers (asm.py, uvm_asm.py) and the          *)
(* interpreter (uvm_run.py), as one state machine.                         *)
(*                                                                         *)
(* A run of the model is: a source text is assembled line by line by one   *)
(* of the two assemblers, the binary image is written, the interpreter     *)
(* loads an image file (the assembler's output, or any other file it is    *)
(* handed) and executes it instruction by instruction.                     *)
(*                                                                         *)
(* Python integers are unbounded; an instruction word reaches bit 32       *)
(* (LDM), so words are kept as sets of bit positions and not as numbers.   *)
(***************************************************************************)
EXTENDS Integers, Sequences, FiniteSets, TLC

VARIABLES
    tool,      \* which assembler runs: "asm" (asm.py), "uvm_asm" (uvm_asm.py), "none"
    src,       \* the source text, a sequence of lines
    n,         \* enumerate(text.splitlines(), 1): the 1-based number of the line being parsed
    prog,      \* the list of instruction records built so far (prog / ir)
    aphase,    \* assembler position: "parse", "parsed", "done", "failed", "idle"
    asmErr,    \* the exception that ended assembly, NoErr if none
    emitted,   \* the per-instruction byte groups handed to the output
    out,       \* the binary image file: whether it exists, and its bytes
    rphase,    \* interpreter position: "off", "run", "halt", "error"
    mem,       \* the memory array of the run: its length and its non-zero cells
    regs,      \* the register file of the run
    pc,        \* program counter, a byte offset into mem
    prog_len,  \* length of the loaded image
    runErr,    \* the exception that ended the run, NoErr if none
    trace,     \* the instructions decoded so far, in order, each with its pc
    acc        \* the indices the last loop iteration used: instruction fetch, data memory, registers

vars == <<tool, src, n, prog, aphase, asmErr, emitted, out,
          rphase, mem, regs, pc, prog_len, runErr, trace, acc>>

asmVars == <<tool, src, n, prog, aphase, asmErr, emitted, out>>
runVars == <<rphase, mem, regs, pc, prog_len, runErr, trace, acc>>

(***************************************************************************)
(* Bounds of the model.                                                    *)
(***************************************************************************)
MaxLines  == 2    \* lines in a source text
MaxRawLen == 2    \* bytes in an image file that no assembler produced
WordBits  == 40   \* bits kept of an instruction word (the widest format ends at bit 32)

(***************************************************************************)
(* Program constants.                                                      *)
(***************************************************************************)
NumRegs == 128    \* regs = [0] * 128
MinMem  == 4096   \* max(4096, ...)
DataPad == 2048   \* len(prog) + 2048

NoFile == [written |-> FALSE, data |-> <<>>]
File(data) == [written |-> TRUE, data |-> data]
NoErr  == [kind |-> "none", cites |-> {}]

Min(a, b) == IF a < b THEN a ELSE b
Max(a, b) == IF a > b THEN a ELSE b

(***************************************************************************)
(* Instruction words: the set of the positions of the bits that are 1 in   *)
(* the Python integer.                                                     *)
(***************************************************************************)
BitIdx == 0 .. (WordBits - 1)

\* the bits of a non-negative number below 2^31
ToBits(x) == {i \in 0 .. 30 : (x \div (2 ^ i)) % 2 = 1} \cap BitIdx

\* the number a word holds, for a word with no bit set at or above bit 31
RECURSIVE SumBits(_, _)
SumBits(w, i) == IF i < 0 THEN 0 ELSE (IF i \in w THEN 2 ^ i ELSE 0) + SumBits(w, i - 1)
ToInt(w) == SumBits(w, 30)

Shl(w, s)    == {i + s : i \in w} \cap BitIdx      \* w << s
Shr(w, s)    == {i - s : i \in w} \cap BitIdx      \* w >> s
BitOr(a, b)  == a \cup b                            \* a | b
BitAnd(a, b) == a \cap b                            \* a & b

\* int.to_bytes(size, "little"): OverflowError when the word needs more bytes
to_bytes(w, size) ==
    IF \E i \in w : i >= 8 * size
    THEN [ok |-> FALSE, bytes |-> <<>>]
    ELSE [ok |-> TRUE,
          bytes |-> [k \in 1 .. size |->
                        LET b(j) == IF (8 * (k - 1) + j) \in w THEN 2 ^ j ELSE 0
                        IN  b(0) + b(1) + b(2) + b(3) + b(4) + b(5) + b(6) + b(7)]]

\* int.from_bytes(raw, "little")
from_bytes(raw) ==
    {i \in 0 .. (8 * Len(raw) - 1) : (raw[(i \div 8) + 1] \div (2 ^ (i % 8))) % 2 = 1} \cap BitIdx

(***************************************************************************)
(* Format tables.                                                          *)
(***************************************************************************)
Fld(name, shift, bits, kind) == [name |-> name, shift |-> shift, bits |-> bits, kind |-> kind]

\* Faulty variant of SPECS: field B of LC starts one bit too low (bit 3).
SPECS_shift3 ==
    [LC  |-> [A |-> 0,  size |-> 4,
              fields |-> <<Fld("B", 3, 7, "reg"), Fld("C", 11, 20, "imm")>>],
     LDM |-> [A |-> 13, size |-> 5,
              fields |-> <<Fld("B", 4, 15, "imm"), Fld("C", 19, 7, "reg"), Fld("D", 26, 7, "reg")>>],
     STM |-> [A |-> 9,  size |-> 3,
              fields |-> <<Fld("B", 4, 10, "imm"), Fld("C", 14, 7, "reg")>>],
     GE  |-> [A |-> 15, size |-> 4,
              fields |-> <<Fld("B", 4, 7, "reg"), Fld("C", 11, 10, "imm"), Fld("D", 21, 7, "reg")>>]]

\* asm.py
SPECS ==
    [LC  |-> [A |-> 0,  size |-> 4,
              fields |-> <<Fld("B", 4, 7, "reg"), Fld("C", 11, 20, "imm")>>],
     LDM |-> [A |-> 13, size |-> 5,
              fields |-> <<Fld("B", 4, 15, "imm"), Fld("C", 19, 7, "reg"), Fld("D", 26, 7, "reg")>>],
     STM |-> [A |-> 9,  size |-> 3,
              fields |-> <<Fld("B", 4, 10, "imm"), Fld("C", 14, 7, "reg")>>],
     GE  |-> [A |-> 15, size |-> 4,
              fields |-> <<Fld("B", 4, 7, "reg"), Fld("C", 11, 10, "imm"), Fld("D", 21, 7, "reg")>>]]

\* uvm_asm.py
UVM_SPECS ==
    [LC  |-> [A |-> 0,  size |-> 4,
              fields |-> <<Fld("B", 4, 7, "reg"), Fld("C", 11, 20, "imm")>>],
     LDM |-> [A |-> 13, size |-> 5,
              fields |-> <<Fld("B", 4, 15, "imm"), Fld("C", 19, 7, "reg"), Fld("D", 26, 7, "reg")>>],
     STM |-> [A |-> 9,  size |-> 3,
              fields |-> <<Fld("B", 4, 10, "imm"), Fld("C", 14, 7, "reg")>>],
     GE  |-> [A |-> 15, size |-> 4,
              fields |-> <<Fld("B", 4, 7, "reg"), Fld("C", 11, 10, "imm"), Fld("D", 21, 7, "reg")>>]]

ALIASES ==
    [LOAD_CONST |-> "LC",  LC  |-> "LC",
     LOAD_MEM   |-> "LDM", LDM |-> "LDM",
     STORE_MEM  |-> "STM", STM |-> "STM",
     CMP_GE     |-> "GE",  GE  |-> "GE"]

\* uvm_run.py: instruction size by opcode nibble
SIZES == (0 :> 4) @@ (9 :> 3) @@ (13 :> 5) @@ (15 :> 4)

(***************************************************************************)
(* Source text.  A line is its mnemonic word, its argument tokens and      *)
(* whether a comment follows; a token is an optional r/R prefix and the    *)
(* integer its literal denotes (decimal, 0x..., leading minus).            *)
(***************************************************************************)
Tok(r, v) == [r |-> r, v |-> v]
R(v) == Tok(TRUE, v)
I(v) == Tok(FALSE, v)
Line(mnem, args) == [mnem |-> mnem, args |-> args, comment |-> FALSE]
Comment == [mnem |-> "", args |-> <<>>, comment |-> TRUE]

\* line.split(";", 1)[0].split("#", 1)[0].strip(): the comment goes, the words stay
clean(line) == [mnem |-> line.mnem, args |-> line.args]

\* str.upper on the mnemonic words of the source alphabet
upper(s) ==
    CASE s = "lc" -> "LC"
      [] s = "ldm" -> "LDM"
      [] s = "stm" -> "STM"
      [] s = "ge" -> "GE"
      [] s = "load_mem" -> "LOAD_MEM"
      [] s = "cmp_ge" -> "CMP_GE"
      [] OTHER -> s

\* int(t, 0): a token that still has its r prefix is no integer literal
num(t) == IF t.r THEN [ok |-> FALSE, v |-> 0] ELSE [ok |-> TRUE, v |-> t.v]

\* reg: the r prefix is dropped when present, then num
reg(t) == num(IF t.r THEN Tok(FALSE, t.v) ELSE t)

\* two's complement for negatives, then the range check
fit_bits(x, bits) ==
    LET y == IF x < 0 THEN (2 ^ bits) + x ELSE x
    IN  IF 0 <= y /\ y < (2 ^ bits)
        THEN [ok |-> TRUE, x |-> y]
        ELSE [ok |-> FALSE, x |-> y]

\* Faulty variant of ReorderLDM: the two registers are not rotated.
ReorderLDM_swapped(args) == <<args[3], args[2], args[1]>>

\* the binary field order from the surface order: LOAD_MEM rC, rD, B -> B, C, D
ReorderLDM(args) == <<args[3], args[1], args[2]>>

\* the binary field order from the surface order: CMP_GE rD, rB, C -> B, C, D
ReorderGE(args) == <<args[2], args[3], args[1]>>

UnknownErr(line)  == [kind |-> "unknown",  cites |-> {line}]  \* f"строка {n}: неизвестная команда {mnem}"
ArityErr(line)    == [kind |-> "arity",    cites |-> {line}]  \* f"строка {n}: неверно аргументов"
OverflowErr       == [kind |-> "overflow", cites |-> {}]      \* f"{x} не влезает в {bits} бит"
LiteralErr        == [kind |-> "literal",  cites |-> {}]      \* int(): invalid literal
BytesErr          == [kind |-> "bytes",    cites |-> {}]      \* to_bytes: int too big to convert

Raise(err) == [tag |-> "err", err |-> err]
None       == [tag |-> "none"]
Ins(ins)   == [tag |-> "ins", ins |-> ins]

(***************************************************************************)
(* asm.py: parse packs the fields and serialises in one pass.              *)
(***************************************************************************)
\* for a, (name, shift, bits, kind) in zip(args, fields): ...
RECURSIVE AsmPack(_, _, _, _, _)
AsmPack(args, fields, k, ins, code) ==
    IF k > Min(Len(args), Len(fields))
    THEN [tag |-> "ok", ins |-> ins, code |-> code]
    ELSE LET f == fields[k]
             v == IF f.kind = "reg" THEN reg(args[k]) ELSE num(args[k])
         IN  IF ~v.ok THEN Raise(LiteralErr)
             ELSE LET p == fit_bits(v.v, f.bits)
                  IN  IF ~p.ok THEN Raise(OverflowErr)
                      ELSE AsmPack(args, fields, k + 1, ins @@ (f.name :> v.v),
                                   BitOr(code, Shl(ToBits(p.x), f.shift)))

parse(line0, num0) ==
    LET line == clean(line0)
    IN  IF line.mnem = "" THEN None
        ELSE LET mnem == upper(line.mnem)
             IN  IF mnem \notin DOMAIN ALIASES THEN Raise(UnknownErr(num0))
                 ELSE LET op   == ALIASES[mnem]
                          spec == SPECS[op]
                          bad3 == op \in {"LDM", "GE"} /\ Len(line.args) # 3
                          args == IF bad3 THEN line.args
                                  ELSE IF op = "LDM" THEN ReorderLDM(line.args)
                                  ELSE IF op = "GE" THEN ReorderGE(line.args)
                                  ELSE line.args
                      IN  IF bad3 \/ Len(args) # Len(spec.fields) THEN Raise(ArityErr(num0))
                          ELSE LET r == AsmPack(args, spec.fields, 1,
                                                [op |-> op, A |-> spec.A], ToBits(spec.A))
                               IN  IF r.tag = "err" THEN r
                                   ELSE LET b == to_bytes(r.code, spec.size)
                                        IN  IF ~b.ok THEN Raise(BytesErr)
                                            ELSE Ins(r.ins @@ ("bytes" :> b.bytes))

(***************************************************************************)
(* uvm_asm.py: parse_line builds the IR, encode_ins serialises it.         *)
(***************************************************************************)
\* for token, (name, _, bits, kind) in zip(args, fields): ...
RECURSIVE UvmPack(_, _, _, _)
UvmPack(args, fields, k, ins) ==
    IF k > Min(Len(args), Len(fields))
    THEN Ins(ins)
    ELSE LET f == fields[k]
             v == IF f.kind = "reg" THEN reg(args[k]) ELSE num(args[k])
         IN  IF ~v.ok THEN Raise(LiteralErr)
             ELSE LET p == fit_bits(v.v, f.bits)
                  IN  IF ~p.ok THEN Raise(OverflowErr)
                      ELSE UvmPack(args, fields, k + 1,
                                   ins @@ (f.name :> v.v) @@ ((f.name \o "_p") :> p.x))

parse_line(line0, num0) ==
    LET line == clean(line0)
    IN  IF line.mnem = "" THEN None
        ELSE LET mnem == upper(line.mnem)
             IN  IF mnem \notin DOMAIN ALIASES THEN Raise(UnknownErr(num0))
                 ELSE LET op   == ALIASES[mnem]
                          spec == UVM_SPECS[op]
                          bad3 == op \in {"LDM", "GE"} /\ Len(line.args) # 3
                          args == IF bad3 THEN line.args
                                  ELSE IF op = "LDM" THEN ReorderLDM(line.args)
                                  ELSE IF op = "GE" THEN ReorderGE(line.args)
                                  ELSE line.args
                      IN  IF bad3 \/ Len(args) # Len(spec.fields) THEN Raise(ArityErr(num0))
                          ELSE UvmPack(args, spec.fields, 1, [op |-> op, A |-> spec.A])

\* for name, shift, _, _ in fields: code |= (ins[name + "_p"] << shift)
RECURSIVE UvmOr(_, _, _, _)
UvmOr(ins, fields, k, code) ==
    IF k > Len(fields) THEN code
    ELSE UvmOr(ins, fields, k + 1,
               BitOr(code, Shl(ToBits(ins[fields[k].name \o "_p"]), fields[k].shift)))

encode_ins(ins) ==
    LET spec == UVM_SPECS[ins.op]
    IN  to_bytes(UvmOr(ins, spec.fields, 1, ToBits(spec.A)), spec.size)

\* concatenation of the byte groups, in order
RECURSIVE Flatten(_)
Flatten(groups) ==
    IF groups = <<>> THEN <<>> ELSE Head(groups) \o Flatten(Tail(groups))

(***************************************************************************)
(* uvm_run.py: decoding.                                                   *)
(***************************************************************************)
\* Faulty variant of to_signed: the sign boundary itself is taken as positive.
to_signed_strict(x, bits) == IF x > 2 ^ (bits - 1) THEN x - 2 ^ bits ELSE x

to_signed(x, bits) == IF x >= 2 ^ (bits - 1) THEN x - 2 ^ bits ELSE x

\* (code >> shift) & mask
Field(code, shift, mask) == ToInt(BitAnd(Shr(code, shift), ToBits(mask)))

decode(opcode, raw) ==
    LET code == from_bytes(raw)
    IN  IF opcode = 0
        THEN [op |-> "LC", B |-> Field(code, 4, 127),
              C |-> to_signed(Field(code, 11, (2 ^ 20) - 1), 20)]
        ELSE IF opcode = 9
        THEN [op |-> "STM", B |-> Field(code, 4, 1023), C |-> Field(code, 14, 127)]
        ELSE IF opcode = 13
        THEN [op |-> "LDM", B |-> to_signed(Field(code, 4, (2 ^ 15) - 1), 15),
              C |-> Field(code, 19, 127), D |-> Field(code, 26, 127)]
        ELSE IF opcode = 15
        THEN [op |-> "GE", B |-> Field(code, 4, 127), C |-> Field(code, 11, 1023),
              D |-> Field(code, 21, 127)]
        ELSE [op |-> "UNKNOWN", A |-> opcode]

(***************************************************************************)
(* uvm_run.py: the run.                                                    *)
(***************************************************************************)
\* Python list indexing: -len .. len-1 are valid, a negative index counts from the end
PyOk(i, len) == -len <= i /\ i < len
PyAt(i, len) == IF i < 0 THEN i + len ELSE i

(* The memory list is [0] * len with cells assigned afterwards; it is kept  *)
(* as its length and the cells that hold a non-zero value.                 *)
MemSize(m) == m.len
MemAt(m, a) == IF a \in DOMAIN m.nz THEN m.nz[a] ELSE 0
MemPut(m, a, v) ==
    [m EXCEPT !.nz = [b \in IF v = 0 THEN DOMAIN m.nz \ {a} ELSE DOMAIN m.nz \cup {a} |->
                         IF b = a THEN v ELSE m.nz[b]]]
NoMem == [len |-> 0, nz |-> <<>>]

\* Faulty variant of AllocLen: the memory is only as long as the image.
AllocLen_tight(plen) == plen

\* mem = [0] * max(4096, len(prog) + 2048)
AllocLen(plen) == Max(MinMem, plen + DataPad)

UnknownOpcodeErr(A, at) == [kind |-> "unknown_opcode", A |-> A, at |-> at]
OutOfBoundsErr(addr)    == [kind |-> "out_of_bounds", addr |-> addr]
IndexErr                == [kind |-> "index"]

\* opcode = mem[pc] & 0x0F
Opcode == MemAt(mem, pc) % 16

\* the indices pc + i for i in range(size)
FetchIdx(size) == {pc + i : i \in 0 .. (size - 1)}

\* raw = bytes((mem[pc + i] & 0xFF) for i in range(size))
Raw(size) == [k \in 1 .. size |-> MemAt(mem, pc + k - 1) % 256]

\* the loop is at an instruction it can fetch whole
AtIns ==
    /\ rphase = "run"
    /\ pc < prog_len
    /\ Opcode \in DOMAIN SIZES
    /\ \A i \in FetchIdx(SIZES[Opcode]) : PyOk(i, MemSize(mem))

CurIns == decode(Opcode, Raw(SIZES[Opcode]))

Done(r, m, mi, ri) == [err |-> NoErr, regs |-> r, mem |-> m, mi |-> mi, ri |-> ri]
Fail(err, mi, ri)  == [err |-> err, regs |-> regs, mem |-> mem, mi |-> mi, ri |-> ri]

\* regs[ins["B"]] = ins["C"]
DoLC(ins) ==
    IF ~PyOk(ins.B, NumRegs) THEN Fail(IndexErr, {}, {ins.B})
    ELSE Done([regs EXCEPT ![PyAt(ins.B, NumRegs)] = ins.C], mem, {}, {ins.B})

\* Faulty variant of DoSTM: the stored value is cut to a byte.
DoSTM_byte(ins) ==
    IF ~PyOk(ins.C, NumRegs) THEN Fail(IndexErr, {}, {ins.C})
    ELSE IF ~PyOk(ins.B, MemSize(mem)) THEN Fail(IndexErr, {ins.B}, {ins.C})
    ELSE Done(regs, MemPut(mem, PyAt(ins.B, MemSize(mem)), regs[PyAt(ins.C, NumRegs)] % 256),
              {ins.B}, {ins.C})

\* mem[ins["B"]] = regs[ins["C"]]
DoSTM(ins) ==
    IF ~PyOk(ins.C, NumRegs) THEN Fail(IndexErr, {}, {ins.C})
    ELSE IF ~PyOk(ins.B, MemSize(mem)) THEN Fail(IndexErr, {ins.B}, {ins.C})
    ELSE Done(regs, MemPut(mem, PyAt(ins.B, MemSize(mem)), regs[PyAt(ins.C, NumRegs)]),
              {ins.B}, {ins.C})

\* Faulty variant of AddrOk: the lower bound is not checked.
AddrOk_upper(addr, len) == addr < len

\* if not (0 <= addr < len(mem))
AddrOk(addr, len) == 0 <= addr /\ addr < len

\* addr = regs[ins["D"]] + ins["B"]; guarded; regs[ins["C"]] = mem[addr]
DoLDM(ins) ==
    IF ~PyOk(ins.D, NumRegs) THEN Fail(IndexErr, {}, {ins.D})
    ELSE LET addr == regs[PyAt(ins.D, NumRegs)] + ins.B
         IN  IF ~AddrOk(addr, MemSize(mem)) THEN Fail(OutOfBoundsErr(addr), {}, {ins.D})
             ELSE IF ~PyOk(addr, MemSize(mem)) THEN Fail(IndexErr, {addr}, {ins.D})
             ELSE IF ~PyOk(ins.C, NumRegs) THEN Fail(IndexErr, {addr}, {ins.D, ins.C})
             ELSE Done([regs EXCEPT ![PyAt(ins.C, NumRegs)] = MemAt(mem, PyAt(addr, MemSize(mem)))],
                       mem, {addr}, {ins.D, ins.C})

\* Faulty variant of DoGE: strict comparison.
DoGE_strict(ins) ==
    IF ~PyOk(ins.B, NumRegs) THEN Fail(IndexErr, {}, {ins.B})
    ELSE IF ~PyOk(ins.C, MemSize(mem)) THEN Fail(IndexErr, {ins.C}, {ins.B})
    ELSE IF ~PyOk(ins.D, NumRegs) THEN Fail(IndexErr, {ins.C}, {ins.B, ins.D})
    ELSE Done([regs EXCEPT ![PyAt(ins.D, NumRegs)] =
                   IF regs[PyAt(ins.B, NumRegs)] > MemAt(mem, PyAt(ins.C, MemSize(mem))) THEN 1 ELSE 0],
              mem, {ins.C}, {ins.B, ins.D})

\* regs[ins["D"]] = 1 if regs[ins["B"]] >= mem[ins["C"]] else 0
DoGE(ins) ==
    IF ~PyOk(ins.B, NumRegs) THEN Fail(IndexErr, {}, {ins.B})
    ELSE IF ~PyOk(ins.C, MemSize(mem)) THEN Fail(IndexErr, {ins.C}, {ins.B})
    ELSE IF ~PyOk(ins.D, NumRegs) THEN Fail(IndexErr, {ins.C}, {ins.B, ins.D})
    ELSE Done([regs EXCEPT ![PyAt(ins.D, NumRegs)] =
                   IF regs[PyAt(ins.B, NumRegs)] >= MemAt(mem, PyAt(ins.C, MemSize(mem))) THEN 1 ELSE 0],
              mem, {ins.C}, {ins.B, ins.D})

\* the end of a loop iteration: the exception leaves the loop, otherwise pc += size
Commit(ins, size, res) ==
    /\ trace' = Append(trace, [pc |-> pc, ins |-> ins])
    /\ acc' = [fetch |-> FetchIdx(size), mem |-> res.mi, reg |-> res.ri]
    /\ IF res.err.kind = "none"
       THEN /\ regs' = res.regs
            /\ mem' = res.mem
            /\ pc' = pc + size
            /\ UNCHANGED <<rphase, runErr>>
       ELSE /\ rphase' = "error"
            /\ runErr' = res.err
            /\ UNCHANGED <<regs, mem, pc>>
    /\ UNCHANGED <<asmVars, prog_len>>

(***************************************************************************)
(* The inputs: source lines, source texts, foreign image files.            *)
(***************************************************************************)
LCLines ==
    { Line("LC", <<R(3), I(-5)>>),
      Line("lc", <<R(127), I(524287)>>),
      Line("LOAD_CONST", <<R(3), I(-524288)>>),
      Line("LC", <<I(0), I(5000)>>),
      Line("LC", <<R(3), I(-524289)>>),
      Line("LC", <<R(3), I(1048576)>>) }

STMLines ==
    { Line("STM", <<I(100), R(3)>>),
      Line("STORE_MEM", <<I(1023), R(127)>>),
      Line("stm", <<I(0), I(0)>>) }

LDMLines ==
    { Line("LDM", <<R(5), R(2), I(8)>>),
      Line("LOAD_MEM", <<R(127), R(0), I(-16384)>>),
      Line("ldm", <<R(0), R(127), I(16383)>>),
      Line("LDM", <<R(4), R(0), I(100)>>),
      Line("LDM", <<R(5), R(2)>>) }

GELines ==
    { Line("GE", <<R(1), R(2), I(50)>>),
      Line("CMP_GE", <<R(0), R(127), I(1023)>>),
      Line("ge", <<R(127), R(0), I(0)>>) }

SrcLines == LCLines \cup STMLines \cup LDMLines \cup GELines
                \cup {Comment, Line("NOP", <<>>)}

Sources == UNION {[1 .. k -> SrcLines] : k \in 0 .. MaxLines}

RawBytes == {0, 9, 13, 15, 7, 253, 255, 29}

RawImages == UNION {[1 .. k -> RawBytes] : k \in 1 .. MaxRawLen}

(***************************************************************************)
(* Initial states.                                                         *)
(***************************************************************************)
InitRun ==
    /\ rphase = "off"
    /\ mem = NoMem
    /\ regs = <<>>
    /\ pc = 0
    /\ prog_len = 0
    /\ runErr = NoErr
    /\ trace = <<>>
    /\ acc = [fetch |-> {}, mem |-> {}, reg |-> {}]

Init ==
    /\ \/ /\ tool \in {"asm", "uvm_asm"}
          /\ src \in Sources
          /\ aphase = "parse"
          /\ out = NoFile
       \/ /\ tool = "none"
          /\ src = <<>>
          /\ aphase = "idle"
          /\ out \in {File(img) : img \in RawImages}
    /\ n = 1
    /\ prog = <<>>
    /\ asmErr = NoErr
    /\ emitted = <<>>
    /\ InitRun

(***************************************************************************)
(* Assembler actions.                                                      *)
(***************************************************************************)
\* one iteration of the loop of assemble / to_ir
ParseStep(r) ==
    /\ IF r.tag = "err"
       THEN /\ aphase' = "failed"
            /\ asmErr' = r.err
            /\ UNCHANGED <<n, prog>>
       ELSE /\ n' = n + 1
            /\ prog' = IF r.tag = "ins" THEN Append(prog, r.ins) ELSE prog
            /\ UNCHANGED <<aphase, asmErr>>
    /\ UNCHANGED <<tool, src, emitted, out, runVars>>

\* asm.py, assemble: ins = parse(line, i)
AsmParse ==
    /\ tool = "asm"
    /\ aphase = "parse"
    /\ n <= Len(src)
    /\ ParseStep(parse(src[n], n))

\* uvm_asm.py, to_ir: ins = parse_line(line, i)
UvmParse ==
    /\ tool = "uvm_asm"
    /\ aphase = "parse"
    /\ n <= Len(src)
    /\ ParseStep(parse_line(src[n], n))

\* asm.py, main: the bytes of every instruction, in order, written to the file
AsmWrite ==
    /\ tool = "asm"
    /\ aphase = "parse"
    /\ n > Len(src)
    /\ emitted' = [k \in 1 .. Len(prog) |-> prog[k].bytes]
    /\ out' = File(Flatten(emitted'))
    /\ aphase' = "done"
    /\ UNCHANGED <<tool, src, n, prog, asmErr, runVars>>

\* uvm_asm.py, main: encode_program, then the file is written
UvmEncodeWrite ==
    /\ tool = "uvm_asm"
    /\ aphase = "parse"
    /\ n > Len(src)
    /\ LET enc == [k \in 1 .. Len(prog) |-> encode_ins(prog[k])]
       IN  IF \E k \in 1 .. Len(prog) : ~enc[k].ok
           THEN /\ aphase' = "failed"
                /\ asmErr' = BytesErr
                /\ UNCHANGED <<emitted, out>>
           ELSE /\ emitted' = [k \in 1 .. Len(prog) |-> enc[k].bytes]
                /\ out' = File(Flatten(emitted'))
                /\ aphase' = "done"
                /\ UNCHANGED asmErr
    /\ UNCHANGED <<tool, src, n, prog, runVars>>

(***************************************************************************)
(* Interpreter actions.                                                    *)
(***************************************************************************)
\* uvm_run.py, main: the image is copied to address 0 of a fresh memory
Load ==
    /\ rphase = "off"
    /\ aphase \in {"done", "idle"}
    /\ out.written
    /\ LET prg == out.data
       IN  /\ mem' = [len |-> AllocLen(Len(prg)),
                      nz  |-> [i \in {j \in 0 .. (Len(prg) - 1) : prg[j + 1] # 0} |-> prg[i + 1]]]
           /\ prog_len' = Len(prg)
    /\ regs' = [i \in 0 .. (NumRegs - 1) |-> 0]
    /\ pc' = 0
    /\ rphase' = "run"
    /\ UNCHANGED <<asmVars, runErr, trace, acc>>

ExecLC ==
    /\ AtIns
    /\ LET ins == CurIns
       IN  /\ ins.op = "LC"
           /\ Commit(ins, SIZES[Opcode], DoLC(ins))

ExecSTM ==
    /\ AtIns
    /\ LET ins == CurIns
       IN  /\ ins.op = "STM"
           /\ Commit(ins, SIZES[Opcode], DoSTM(ins))

ExecLDM ==
    /\ AtIns
    /\ LET ins == CurIns
       IN  /\ ins.op = "LDM"
           /\ Commit(ins, SIZES[Opcode], DoLDM(ins))

ExecGE ==
    /\ AtIns
    /\ LET ins == CurIns
       IN  /\ ins.op = "GE"
           /\ Commit(ins, SIZES[Opcode], DoGE(ins))

\* the fetch itself fails: no table entry for the nibble, or a byte index past the array
FetchFail ==
    /\ rphase = "run"
    /\ pc < prog_len
    /\ ~AtIns
    /\ rphase' = "error"
    /\ runErr' = IF Opcode \notin DOMAIN SIZES THEN UnknownOpcodeErr(Opcode, pc) ELSE IndexErr
    /\ acc' = [fetch |-> IF Opcode \notin DOMAIN SIZES THEN {pc} ELSE FetchIdx(SIZES[Opcode]),
               mem |-> {}, reg |-> {}]
    /\ UNCHANGED <<asmVars, mem, regs, pc, prog_len, trace>>

\* while pc < prog_len: the loop ends
Halt ==
    /\ rphase = "run"
    /\ pc >= prog_len
    /\ rphase' = "halt"
    /\ UNCHANGED <<asmVars, mem, regs, pc, prog_len, runErr, trace, acc>>

Next ==
    \/ AsmParse
    \/ UvmParse
    \/ AsmWrite
    \/ UvmEncodeWrite
    \/ Load
    \/ ExecLC
    \/ ExecSTM
    \/ ExecLDM
    \/ ExecGE
    \/ FetchFail
    \/ Halt

Spec == Init /\ [][Next]_vars

(***************************************************************************)
(* Properties.                                                             *)
(***************************************************************************)
\* the canonical mnemonic of a line, "" when it has none
OpOf(line) ==
    IF line.mnem # "" /\ upper(line.mnem) \in DOMAIN ALIASES
    THEN ALIASES[upper(line.mnem)] ELSE ""

\* the source line the k-th instruction comes from: the k-th line that is not empty
LineOf(k) ==
    CHOOSE i \in 1 .. Len(src) :
        /\ src[i].mnem # ""
        /\ Cardinality({j \in 1 .. i : src[j].mnem # ""}) = k

\* line i has been parsed without an error / assembly failed at line i
ParsedOk(i) == i < n
FailedAt(i) == aphase = "failed" /\ n = i

\* what the interpreter's decoder makes of one byte group
DecodeBytes(bytes) == decode(bytes[1] % 16, bytes)

IsReg(v)          == 0 <= v /\ v <= 127
IsUnsigned(v, w)  == 0 <= v /\ v < 2 ^ w
IsSigned(v, w)    == -(2 ^ (w - 1)) <= v /\ v < 2 ^ (w - 1)

\* the field values of an instruction record are in the range of their fields
InRangeIns(ins) ==
    CASE ins.op = "LC"  -> IsReg(ins.B) /\ IsSigned(ins.C, 20)
      [] ins.op = "STM" -> IsUnsigned(ins.B, 10) /\ IsReg(ins.C)
      [] ins.op = "LDM" -> IsSigned(ins.B, 15) /\ IsReg(ins.C) /\ IsReg(ins.D)
      [] ins.op = "GE"  -> IsReg(ins.B) /\ IsUnsigned(ins.C, 10) /\ IsReg(ins.D)

\* the value and the width of the signed field of a line, for an LC or LDM line
HasSigned(line)   == \/ OpOf(line) = "LC"  /\ Len(line.args) = 2
                     \/ OpOf(line) = "LDM" /\ Len(line.args) = 3
SignedValue(line) == IF OpOf(line) = "LC" THEN line.args[2].v ELSE line.args[3].v
SignedWidth(line) == IF OpOf(line) = "LC" THEN 20 ELSE 15

\* C1: for the signed fields (LC.C, 20 bits; LDM.B, 15 bits) a line whose value is
\* 2^bits or -(2^(bits-1))-1 fails to assemble with the overflow error, and a line
\* whose value is 2^(bits-1)-1 or -(2^(bits-1)) is packed without error.
C1_PackBoundary ==
    \A i \in 1 .. Len(src) :
        (HasSigned(src[i]) /\ tool # "none" /\ (ParsedOk(i) \/ FailedAt(i))) =>
            LET v == SignedValue(src[i])
                w == SignedWidth(src[i])
            IN  /\ (v = 2 ^ w \/ v = -(2 ^ (w - 1)) - 1) =>
                        (FailedAt(i) /\ asmErr.kind = "overflow")
                /\ (v = 2 ^ (w - 1) - 1 \/ v = -(2 ^ (w - 1))) => ParsedOk(i)

\* C2: every instruction the assembler emitted whose field values are in range is
\* decoded by the interpreter to the same opcode name and the same B, C (and D).
C2_RoundTrip ==
    aphase = "done" =>
        \A k \in 1 .. Len(prog) :
            InRangeIns(prog[k]) =>
                LET d == DecodeBytes(emitted[k])
                IN  /\ d.op = prog[k].op
                    /\ d.B = prog[k].B
                    /\ d.C = prog[k].C
                    /\ ("D" \in DOMAIN prog[k]) = ("D" \in DOMAIN d)
                    /\ "D" \in DOMAIN d => d.D = prog[k].D

C2_Witness ==
    /\ aphase = "done"
    /\ \E k \in 1 .. Len(prog) :
           /\ prog[k].op = "LC" /\ prog[k].C = -524288
           /\ DecodeBytes(emitted[k]) = [op |-> "LC", B |-> 3, C |-> -524288]

\* C3: a line LDM rc, rd, b (or LOAD_MEM) with register indices c, d and an in-range
\* signed 15-bit b is emitted as 5 bytes that decode as B = b, C = c, D = d.
C3_LDMOrder ==
    aphase = "done" =>
        \A k \in 1 .. Len(prog) :
            LET line == src[LineOf(k)]
            IN  (/\ OpOf(line) = "LDM"
                 /\ IsReg(line.args[1].v) /\ IsReg(line.args[2].v)
                 /\ IsSigned(line.args[3].v, 15)) =>
                    /\ Len(emitted[k]) = 5
                    /\ DecodeBytes(emitted[k]) =
                           [op |-> "LDM", B |-> line.args[3].v,
                            C |-> line.args[1].v, D |-> line.args[2].v]

C3_Witness ==
    /\ aphase = "done"
    /\ \E k \in 1 .. Len(prog) :
           /\ src[LineOf(k)] = Line("LDM", <<R(5), R(2), I(8)>>)
           /\ DecodeBytes(emitted[k]) = [op |-> "LDM", B |-> 8, C |-> 5, D |-> 2]

\* a line GE rd, rb, c (or CMP_GE) is emitted as bytes that decode as B = b, C = c, D = d
GEDecoded ==
    aphase = "done" =>
        \A k \in 1 .. Len(prog) :
            LET line == src[LineOf(k)]
            IN  (/\ OpOf(line) = "GE"
                 /\ IsReg(line.args[1].v) /\ IsReg(line.args[2].v)
                 /\ IsUnsigned(line.args[3].v, 10)) =>
                    DecodeBytes(emitted[k]) =
                        [op |-> "GE", B |-> line.args[2].v,
                         C |-> line.args[3].v, D |-> line.args[1].v]

\* executing a GE writes 1 or 0 to register D by comparing register B with the
\* memory cell at address C, changes nothing else and goes on to the next instruction
GEStep ==
    (AtIns /\ CurIns.op = "GE") =>
        LET ins == CurIns
        IN  /\ regs' = [regs EXCEPT ![ins.D] = IF regs[ins.B] >= MemAt(mem, ins.C) THEN 1 ELSE 0]
            /\ mem' = mem
            /\ pc' = pc + 4
            /\ rphase' = "run"

\* C4: GE rd, rb, c decodes as B = b, C = c, D = d, and executing a GE sets
\* register[D] to 1 if register[B] >= memory[C] and to 0 otherwise, C being a
\* memory address.
C4_GE == [][GEDecoded /\ GEStep]_vars

C4_Witness ==
    /\ rphase = "run"
    /\ src # <<>>
    /\ src[1] = Line("GE", <<R(1), R(2), I(50)>>)
    /\ trace = <<[pc |-> 0, ins |-> [op |-> "GE", B |-> 2, C |-> 50, D |-> 1]]>>
    /\ regs[1] = 1
    /\ MemAt(mem, 50) = 0

\* the lines of the source text that are not empty
Code == SelectSeq(src, LAMBDA l : l.mnem # "")

\* the text is LC r, v followed by STM a, r with every value in range
IsLCThenSTM ==
    /\ tool # "none"
    /\ Len(Code) = 2
    /\ OpOf(Code[1]) = "LC"  /\ Len(Code[1].args) = 2
    /\ OpOf(Code[2]) = "STM" /\ Len(Code[2].args) = 2
    /\ ~Code[2].args[1].r
    /\ Code[1].args[1].v = Code[2].args[2].v
    /\ IsReg(Code[1].args[1].v)
    /\ IsSigned(Code[1].args[2].v, 20)
    /\ IsUnsigned(Code[2].args[1].v, 10)

\* C5: LC r, v then STM a, r assembles to 7 bytes; the run executes the LC at 0
\* and the STM at 4, never fails, and halts with pc = 7 and memory[a] = v.
C5_LCThenSTM ==
    IsLCThenSTM =>
        LET r == Code[1].args[1].v
            v == Code[1].args[2].v
            a == Code[2].args[1].v
            t == <<[pc |-> 0, ins |-> [op |-> "LC", B |-> r, C |-> v]],
                   [pc |-> 4, ins |-> [op |-> "STM", B |-> a, C |-> r]]>>
        IN  /\ aphase # "failed"
            /\ aphase = "done" => Len(out.data) = 7
            /\ rphase # "error"
            /\ rphase = "run" => /\ pc \in {0, 4, 7}
                                 /\ trace = SubSeq(t, 1, Len(trace))
                                 /\ Len(trace) = (IF pc = 0 THEN 0 ELSE IF pc = 4 THEN 1 ELSE 2)
            /\ rphase = "halt" => /\ pc = 7
                                  /\ trace = t
                                  /\ a < MemSize(mem)
                                  /\ MemAt(mem, a) = v

C5_Witness ==
    /\ rphase = "halt"
    /\ Code = <<Line("LC", <<R(3), I(-5)>>), Line("STM", <<I(100), R(3)>>)>>
    /\ MemAt(mem, 100) = -5
    /\ pc = 7

\* C6: an LDM whose address register[D] + B is outside [0, len(memory)) ends the run
\* with the out-of-bounds error, with registers, memory and pc as before it, and
\* nothing is executed after it; an LDM whose address is inside sets
\* register[C] = memory[address] without error.
C6_LDMBounds ==
    [][/\ (rphase = "error" /\ runErr.kind = "out_of_bounds") => FALSE
       /\ (AtIns /\ CurIns.op = "LDM") =>
              LET ins  == CurIns
                  addr == regs[ins.D] + ins.B
              IN  IF addr < 0 \/ addr >= MemSize(mem)
                  THEN /\ rphase' = "error"
                       /\ runErr' = OutOfBoundsErr(addr)
                       /\ regs' = regs /\ mem' = mem /\ pc' = pc
                  ELSE /\ rphase' = "run"
                       /\ runErr' = NoErr
                       /\ regs' = [regs EXCEPT ![ins.C] = MemAt(mem, addr)]
                       /\ mem' = mem
                       /\ pc' = pc + 5]_vars

C6_Witness ==
    /\ rphase = "error"
    /\ runErr.kind = "out_of_bounds"
    /\ runErr.addr >= MemSize(mem)
    /\ trace[Len(trace)].ins.op = "LDM"
    /\ Len(trace) = 2

\* C7: no instruction is fetched at a pc >= program_length, and no cell at an
\* address >= program_length is read as a byte of an instruction.
C7_Confined ==
    /\ \A k \in 1 .. Len(trace) : trace[k].pc < prog_len
    /\ \A a \in acc.fetch : a < prog_len

\* C8: when a line has an unknown mnemonic, a wrong argument count or a value that
\* does not fit its field, assembly stops at it, the error carries its line number
\* and no binary output is written.
C8_ErrorsLocated ==
    (aphase = "failed" /\ asmErr.kind \in {"unknown", "arity", "overflow"}) =>
        /\ asmErr.cites = {n}
        /\ ~out.written
        /\ emitted = <<>>

Format == [LC |-> [A |-> 0, size |-> 4], STM |-> [A |-> 9, size |-> 3],
           LDM |-> [A |-> 13, size |-> 5], GE |-> [A |-> 15, size |-> 4]]

\* C9: in every emitted instruction the low 4 bits of the first byte are the opcode
\* of its mnemonic (LC 0, STM 9, LDM 13, GE 15) and the number of bytes is the
\* opcode's size (4, 3, 5, 4), which is also the size the interpreter looks up.
C9_Nibble ==
    aphase = "done" =>
        /\ Len(emitted) = Len(prog)
        /\ \A k \in 1 .. Len(prog) :
               /\ emitted[k][1] % 16 = Format[prog[k].op].A
               /\ Len(emitted[k]) = Format[prog[k].op].size
               /\ SIZES[emitted[k][1] % 16] = Len(emitted[k])
               /\ \A j \in 1 .. Len(emitted[k]) : emitted[k][j] \in 0 .. 255

C9_Witness ==
    /\ aphase = "done"
    /\ \E k \in 1 .. Len(prog) :
           /\ prog[k].op = "LC" /\ prog[k].B = 127 /\ prog[k].C = 524287
           /\ emitted[k] = <<240, 255, 255, 63>>

\* C10: in a run set up by main every register index used is in 0..127 and every
\* memory index used by fetch, STM and GE is in [0, len(memory)); the run fails
\* only with the unknown-opcode error or the out-of-bounds error of LDM.
C10_IndexSafe ==
    rphase # "off" =>
        /\ MemSize(mem) = Max(4096, prog_len + 2048)
        /\ \A a \in acc.fetch \cup acc.mem : 0 <= a /\ a < MemSize(mem)
        /\ \A r \in acc.reg : 0 <= r /\ r <= 127
        /\ runErr.kind \in {"none", "unknown_opcode", "out_of_bounds"}
        /\ rphase = "error" <=> runErr.kind # "none"

C10_Witness ==
    /\ rphase = "run"
    /\ acc.mem = {1023}
    /\ acc.reg = {127}
    /\ acc.fetch = {4, 5, 6}
    /\ MemAt(mem, 1023) = 524287

====
